---------------------------- MODULE Spec2Model ----------------------------
(***************************************************************************)
(* Model of the NASA image scraping pipeline.                              *)
(*                                                                         *)
(*   src/nasa_api.py  ResultIterator, NASAApi (session scope, search,      *)
(*                    _get_pages, _get_item), the shared NASA_API          *)
(*   src/main.py      main() (the downstream driver) and rekognize()       *)
(*                                                                         *)
(* All coroutines run on one asyncio event loop: a step of the model is    *)
(* the code a task runs between two suspension points.  asyncio.Queue()    *)
(* is unbounded, so queue.put never suspends.                              *)
(***************************************************************************)
EXTENDS Integers, Sequences, FiniteSets, TLC

(***************************************************************************)
(* Bounds of the model.                                                    *)
(***************************************************************************)
\* pages the search service serves for one search
MaxPages == 2
\* entries the search service serves over all pages of one search
MaxEntries == 3
\* deepest nesting of `async with NASA_API` scopes (scope specification)
MaxDepth == 3
\* ClientSessions opened in one run of the scope specification
MaxOpens == 6

(***************************************************************************)
(* Program constants.                                                      *)
(***************************************************************************)
CONCURRENCY_LIMIT == 5

\* nasa_id values the service can serve
Ids == {<<"A">>, <<"B">>, <<"C">>}

\* the sequences over S of length at most n
RECURSIVE SeqsUpTo(_, _)
SeqsUpTo(S, n) ==
    IF n = 0 THEN {<<>>}
    ELSE LET shorter == SeqsUpTo(S, n - 1)
         IN  shorter \cup {Append(s, x) : s \in {t \in shorter : Len(t) = n - 1}, x \in S}

Range(s) == {s[i] : i \in DOMAIN s}

RECURSIVE Flatten(_)
Flatten(ss) == IF ss = <<>> THEN <<>> ELSE Head(ss) \o Flatten(Tail(ss))

\* number of positions of s holding x
Count(s, x) == Cardinality({i \in DOMAIN s : s[i] = x})

\* The search service's answer to one search: a chain of pages, each the
\* sequence of the nasa_id of its items (data["items"]), each linked to the next
\* (data["links"], rel "next") but the last.
\* The code compares identifiers only for equality, so the chains are taken
\* up to a renaming of the identifiers: an identifier occurs in a chain only
\* after those before it in IdOrder.
IdOrder == <<<<"A">>, <<"B">>, <<"C">>>>
FirstUse(s) ==
    \A i \in DOMAIN s : \A k \in DOMAIN IdOrder :
        s[i] = IdOrder[k] => \A m \in 1..(k - 1) : \E j \in 1..(i - 1) : s[j] = IdOrder[m]
RECURSIVE Sum(_)
Sum(l) == IF l = <<>> THEN 0 ELSE Head(l) + Sum(Tail(l))
\* the entries s cut into pages of the lengths l
Paged(s, l) ==
    [p \in DOMAIN l |-> SubSeq(s, Sum(SubSeq(l, 1, p - 1)) + 1, Sum(SubSeq(l, 1, p)))]
PageLens(n) == {l \in SeqsUpTo(0..n, MaxPages) : Len(l) >= 1 /\ Sum(l) = n}
Chains ==
    UNION {{Paged(s, l) : l \in PageLens(Len(s))} :
              s \in {t \in SeqsUpTo(Ids, MaxEntries) : FirstUse(t)}}

\* data["metadata"]["total_hits"]: the number of results of the search
TotalHits(c) == Len(Flatten(c))

VARIABLES
    \* ---- NASAApi (src/nasa_api.py) ----
    session,        \* self.session: 0 is None, n > 0 the n-th ClientSession
    entered_count,  \* self._entered_count
    opened,         \* number of ClientSessions created so far
    closeLog,       \* the sessions session.close() was called on, in call order
    level,          \* self.rate_limiter: capacity in use
    \* ---- one search: search / _get_pages / _get_item ----
    chain,          \* the pages the service holds for the search
    pages,          \* the pages the service has returned so far
    walkerPc,       \* position of the _get_pages task
    next_page,      \* number of the page to fetch next, 0 when None
    first,          \* local `first` of _get_pages
    permit,         \* the _get_pages task is inside `async with self.rate_limiter`
    tasks,          \* local `tasks` of _get_pages, in creation order: [id, st]
    queue,          \* the search's asyncio.Queue
    puts,           \* every value put on the queue, in order
    requests,       \* the requests session.get() issued: [kind, n, permit]
    total,          \* ResultIterator.total, -1 before search() returned
    \* ---- main() and rekognize (src/main.py) ----
    mainPc,         \* position of main()
    files,          \* files under OUTPUT_PATH: [kind, name]
    img_ids,        \* local img_ids of main()
    loaded,         \* img_ids as loaded at start
    seen,           \* the items the `async for` of main() received, in order
    rk_tasks,       \* local `tasks` of main(), in creation order: [id, st]
    \* ---- one _get_item call, from its detail document on ----
    data,           \* local `data`: the detail document, a list of locations
    result,         \* local `result`: [st, image_urls]
    \* ---- searches run side by side on NASA_API ----
    queues,         \* the asyncio.Queue objects created so far, in creation order
    searches        \* per search: its caller, its _get_pages task and its items

apiVars == <<session, entered_count, opened, closeLog>>
searchVars == <<chain, pages, walkerPc, next_page, first, permit, tasks, queue, puts,
                requests, total, level>>
mainVars == <<mainPc, files, img_ids, loaded, seen, rk_tasks>>
extraVars == <<data, result, queues, searches>>
vars == <<session, entered_count, opened, closeLog, level, chain, pages, walkerPc,
          next_page, first, permit, tasks, queue, puts, requests, total,
          mainPc, files, img_ids, loaded, seen, rk_tasks,
          data, result, queues, searches>>

\* values carried by the queue
TotalMsg(n) == [type |-> "total", val |-> n, id |-> <<>>]
RecordMsg(id) == [type |-> "record", val |-> 0, id |-> id]
Sentinel == [type |-> "none", val |-> 0, id |-> <<>>]

(***************************************************************************)
(* NASAApi: the session scope                                              *)
(***************************************************************************)
\* __aexit__: `if self._entered_count == 0`
ShouldClose_Always(cnt) == TRUE
ShouldClose(cnt) == cnt = 0

\* __aenter__: self.open() creates a new ClientSession, then the count grows
aenter ==
    /\ opened' = opened + 1
    /\ session' = opened + 1
    /\ entered_count' = entered_count + 1
    /\ UNCHANGED closeLog

\* __aexit__, with close() when the count is back to 0
aexit ==
    /\ entered_count' = entered_count - 1
    /\ closeLog' = IF ShouldClose(entered_count - 1)
                   THEN Append(closeLog, session)
                   ELSE closeLog
    /\ UNCHANGED <<session, opened>>

(***************************************************************************)
(* AsyncLimiter(CONCURRENCY_LIMIT, CONCURRENCY_LIMIT / REQUESTS_PER_SECOND) *)
(***************************************************************************)
\* `async with self.rate_limiter` is granted only while the bucket has room.
\* A search sends at most MaxPages page requests through the limiter; the
\* leak of the bucket with time is left out, it only makes room earlier.
HasCapacity(lv) == lv < CONCURRENCY_LIMIT

(***************************************************************************)
(* NASAApi.search and ResultIterator                                       *)
(***************************************************************************)
\* queue.get() returns once the queue holds a value
SearchReady_Sentinel(q) == q # <<>> /\ q[Len(q)].type = "none"
SearchReady(q) == q # <<>>

\* search(), up to `total = await queue.get()`: a fresh queue, and the
\* _get_pages task is created
search_start ==
    /\ queue' = <<>>
    /\ walkerPc' = "acquire"
    /\ next_page' = 1
    /\ first' = TRUE
    /\ tasks' = <<>>
    /\ UNCHANGED <<chain, pages, permit, puts, requests, total, level>>

\* search(), from `total = await queue.get()` to `return ResultIterator(queue, total)`
search_return ==
    /\ SearchReady(queue)
    /\ total' = Head(queue).val
    /\ queue' = Tail(queue)
    /\ UNCHANGED <<chain, pages, walkerPc, next_page, first, permit, tasks, puts,
                   requests, level>>

(***************************************************************************)
(* NASAApi._get_pages                                                      *)
(***************************************************************************)
\* `if first: await queue.put(data["metadata"]["total_hits"])`
PutTotal_Never(q, fst, th) == q
PutTotal(q, fst, th) == IF fst THEN Append(q, TotalMsg(th)) ELSE q

\* `for item in data["items"]: tasks.add(asyncio.create_task(self._get_item(queue, item)))`
SpawnItems_NotYet(ts, items) == ts
SpawnItems_DropLast(ts, items) ==
    ts \o [i \in 1..(Len(items) - 1) |-> [id |-> items[i], st |-> "spawned"]]
SpawnItems(ts, items) ==
    ts \o [i \in 1..Len(items) |-> [id |-> items[i], st |-> "spawned"]]

\* `await asyncio.gather(*tasks)` returns when every task has returned ...
GatherReady_Tolerant(ts) == \A i \in DOMAIN ts : ts[i].st \in {"done", "failed"}
GatherReady_NoWait(ts) == \A i \in DOMAIN ts : ts[i].st # "failed"
GatherReady(ts) == \A i \in DOMAIN ts : ts[i].st = "done"
\* ... and raises as soon as one task has raised
GatherRaises(ts) == \E i \in DOMAIN ts : ts[i].st = "failed"

\* `async with self.rate_limiter:` is granted and, with no suspension in
\* between, `self.session.get(next_page)` sends the page request
GetPagesRequest ==
    /\ walkerPc = "acquire"
    /\ HasCapacity(level)
    /\ level' = level + 1
    /\ permit' = TRUE
    /\ requests' = requests \cup {[kind |-> "page", n |-> next_page, permit |-> permit']}
    /\ walkerPc' = "resp"
    /\ UNCHANGED <<extraVars, apiVars, mainVars, chain, pages, next_page, first, tasks,
                   queue, puts, total>>

\* resp.raise_for_status() raises: the _get_pages task ends with the error
GetPagesFail ==
    /\ walkerPc = "resp"
    /\ walkerPc' = "failed"
    /\ permit' = FALSE
    /\ UNCHANGED <<extraVars, apiVars, mainVars, chain, pages, next_page, first, tasks, queue,
                   puts, requests, total, level>>

\* a 200 OK page: next_page, the total on the first page, one _get_item task
\* per item; then the loop goes on or ends
GetPagesPage(items, hasNext, th) ==
    /\ walkerPc = "resp"
    /\ pages' = Append(pages, items)
    /\ next_page' = IF hasNext THEN next_page + 1 ELSE 0
    /\ queue' = PutTotal(queue, first, th)
    /\ puts' = PutTotal(puts, first, th)
    /\ first' = FALSE
    /\ tasks' = SpawnItems(tasks, items)
    /\ permit' = FALSE
    /\ walkerPc' = IF hasNext THEN "acquire" ELSE "gather"
    /\ UNCHANGED <<extraVars, apiVars, mainVars, chain, requests, total, level>>

\* the service answers the request for page next_page
GetPagesResponse ==
    GetPagesPage(chain[next_page], next_page < Len(chain), TotalHits(chain))

\* `await asyncio.gather(*tasks)` returned: `await queue.put(None)`
GetPagesSentinel ==
    /\ walkerPc = "gather"
    /\ GatherReady(tasks)
    /\ queue' = Append(queue, Sentinel)
    /\ puts' = Append(puts, Sentinel)
    /\ walkerPc' = "done"
    /\ UNCHANGED <<extraVars, apiVars, mainVars, chain, pages, next_page, first, permit, tasks,
                   requests, total, level>>

\* `await asyncio.gather(*tasks)` raised the error of a _get_item task
GetPagesGatherFail ==
    /\ walkerPc = "gather"
    /\ GatherRaises(tasks)
    /\ walkerPc' = "failed"
    /\ UNCHANGED <<extraVars, apiVars, mainVars, chain, pages, next_page, first, permit, tasks,
                   queue, puts, requests, total, level>>

(***************************************************************************)
(* NASAApi._get_item                                                       *)
(***************************************************************************)
\* _get_item goes to self.session.get without `async with self.rate_limiter`
ItemPermit == FALSE

\* `self.session.get(item["href"])`: the detail request goes out
GetItemRequest(i) ==
    /\ tasks[i].st = "spawned"
    /\ requests' = requests \cup {[kind |-> "item", n |-> i, permit |-> ItemPermit]}
    /\ tasks' = [tasks EXCEPT ![i].st = "get"]
    /\ UNCHANGED <<extraVars, apiVars, mainVars, chain, pages, walkerPc, next_page, first, permit,
                   queue, puts, total, level>>

\* `await queue.put(result)`, the one put of _get_item
PutRecord_Twice(q, id) == Append(Append(q, RecordMsg(id)), RecordMsg(id))
PutRecord(q, id) == Append(q, RecordMsg(id))

\* 200 OK: the Record is built and put on the queue
GetItemRecord(i) ==
    /\ tasks[i].st = "get"
    /\ queue' = PutRecord(queue, tasks[i].id)
    /\ puts' = PutRecord(puts, tasks[i].id)
    /\ tasks' = [tasks EXCEPT ![i].st = "done"]
    /\ UNCHANGED <<extraVars, apiVars, mainVars, chain, pages, walkerPc, next_page, first, permit,
                   requests, total, level>>

\* resp.raise_for_status() raises: the task ends with the error, nothing is put
GetItemFail(i) ==
    /\ tasks[i].st = "get"
    /\ tasks' = [tasks EXCEPT ![i].st = "failed"]
    /\ UNCHANGED <<extraVars, apiVars, mainVars, chain, pages, walkerPc, next_page, first, permit,
                   queue, puts, requests, total, level>>

GetItem == \E i \in DOMAIN tasks : GetItemRequest(i) \/ GetItemRecord(i) \/ GetItemFail(i)

(***************************************************************************)
(* main() and rekognize                                                    *)
(***************************************************************************)
\* image_fn = f"image_{img_id}.{url.split('.')[-1]}", meta_fn = f"meta_{img_id}.json"
ImageFile(id) == [kind |-> "image", name |-> <<"image_">> \o id \o <<".", "jpg">>]
MetaFile(id) == [kind |-> "meta", name |-> <<"meta_">> \o id \o <<".", "json">>]

\* s.split(".")[0]: the part of s before its first "."
RECURSIVE BeforeDot(_)
BeforeDot(s) ==
    IF s = <<>> \/ Head(s) = "." THEN <<>> ELSE <<Head(s)>> \o BeforeDot(Tail(s))

\* os.path.basename(s)[6:].split(".")[0] over glob("image_*")
LoadImgIds(fs) == {BeforeDot(Tail(f.name)) : f \in {g \in fs : g.kind = "image"}}

\* `if item["nasa_id"] not in img_ids`
ShouldSpawn_Always(id, ids) == TRUE
ShouldSpawn(id, ids) == id \notin ids

\* img_ids = set(...) before the `async with`
MainLoad ==
    /\ mainPc = "start"
    /\ img_ids' = LoadImgIds(files)
    /\ loaded' = LoadImgIds(files)
    /\ mainPc' = "enter"
    /\ UNCHANGED <<extraVars, apiVars, searchVars, files, seen, rk_tasks>>

\* `async with NASA_API as napi:` (the ClientSession and the rekognition
\* client main() opens next are used by rekognize only)
MainEnter ==
    /\ mainPc = "enter"
    /\ aenter
    /\ mainPc' = "search"
    /\ UNCHANGED <<extraVars, searchVars, files, img_ids, loaded, seen, rk_tasks>>

\* `search = await napi.search(...)`, up to its queue.get()
MainSearch ==
    /\ mainPc = "search"
    /\ search_start
    /\ mainPc' = "wait_total"
    /\ UNCHANGED <<extraVars, apiVars, files, img_ids, loaded, seen, rk_tasks>>

\* search() returns the ResultIterator
SearchReturn ==
    /\ mainPc = "wait_total"
    /\ search_return
    /\ mainPc' = "iter"
    /\ UNCHANGED <<extraVars, apiVars, files, img_ids, loaded, seen, rk_tasks>>

\* one round of `async for item in search`: __anext__ and the loop body
MainNext ==
    /\ mainPc = "iter"
    /\ queue # <<>>
    /\ queue' = Tail(queue)
    /\ LET r == Head(queue) IN
        IF r.type = "none"
        THEN /\ mainPc' = "gather"
             /\ UNCHANGED <<img_ids, seen, rk_tasks>>
        ELSE /\ mainPc' = "iter"
             /\ seen' = Append(seen, r.id)
             /\ IF ShouldSpawn(r.id, img_ids)
                THEN /\ img_ids' = img_ids \cup {r.id}
                     /\ rk_tasks' = Append(rk_tasks, [id |-> r.id, st |-> "pending"])
                ELSE UNCHANGED <<img_ids, rk_tasks>>
    /\ UNCHANGED <<extraVars, apiVars, files, loaded, chain, pages, walkerPc, next_page, first,
                   permit, tasks, puts, requests, total, level>>

\* rekognize, run by the i-th task of main(): the image is read and labelled,
\* then the meta file and the image file are written, in this order; a
\* non-200 image response or a failed detect_labels ends the task with the
\* error before anything is written.  AsyncLimiter(40, 1) admits every task
\* of a search of at most MaxEntries items at once.
RkRun(i, ok) ==
    /\ rk_tasks[i].st = "pending"
    /\ rk_tasks' = [rk_tasks EXCEPT ![i].st = IF ok THEN "done" ELSE "failed"]
    /\ files' = IF ok
                THEN (files \cup {MetaFile(rk_tasks[i].id)}) \cup {ImageFile(rk_tasks[i].id)}
                ELSE files
    /\ UNCHANGED <<extraVars, apiVars, searchVars, mainPc, img_ids, loaded, seen>>

Rekognize == \E i \in DOMAIN rk_tasks, ok \in BOOLEAN : RkRun(i, ok)

\* `await asyncio.gather(*tasks)` of main(): returns when every rekognize
\* task has returned, raises as soon as one has raised
RkGatherReady_NoWait(ts) == \A i \in DOMAIN ts : ts[i].st # "failed"
RkGatherReady(ts) == \A i \in DOMAIN ts : ts[i].st = "done"
RkGatherRaises(ts) == \E i \in DOMAIN ts : ts[i].st = "failed"

\* `await asyncio.gather(*tasks)` of main() returns
MainGather ==
    /\ mainPc = "gather"
    /\ RkGatherReady(rk_tasks)
    /\ mainPc' = "exit"
    /\ UNCHANGED <<extraVars, apiVars, searchVars, files, img_ids, loaded, seen, rk_tasks>>

\* `await asyncio.gather(*tasks)` of main() raises
MainGatherFail ==
    /\ mainPc = "gather"
    /\ RkGatherRaises(rk_tasks)
    /\ mainPc' = "exit_error"
    /\ UNCHANGED <<extraVars, apiVars, searchVars, files, img_ids, loaded, seen, rk_tasks>>

\* leaving `async with NASA_API`
MainExit ==
    /\ mainPc \in {"exit", "exit_error"}
    /\ aexit
    /\ mainPc' = IF mainPc = "exit" THEN "done" ELSE "error"
    /\ UNCHANGED <<extraVars, searchVars, files, img_ids, loaded, seen, rk_tasks>>

(***************************************************************************)
(* The pipeline run by main()                                              *)
(***************************************************************************)
\* the state the process of main() starts in, with NASA_API as constructed at
\* import
ProcessStart ==
    /\ session = 0
    /\ entered_count = 0
    /\ opened = 0
    /\ closeLog = <<>>
    /\ level = 0
    /\ pages = <<>>
    /\ walkerPc = "none"
    /\ next_page = 0
    /\ first = TRUE
    /\ permit = FALSE
    /\ tasks = <<>>
    /\ queue = <<>>
    /\ puts = <<>>
    /\ requests = {}
    /\ total = -1
    /\ mainPc = "start"
    /\ img_ids = {}
    /\ loaded = {}
    /\ seen = <<>>
    /\ rk_tasks = <<>>

\* no _get_item call is followed on its own
NoItem == data = <<>> /\ result = [st |-> "none", image_urls |-> <<>>]

\* no searches are run side by side
NoSearches == queues = <<>> /\ searches = <<>>

\* the process and the service's answer to its search
Start == ProcessStart /\ chain \in Chains /\ NoItem /\ NoSearches

\* a first run: OUTPUT_PATH is empty
Init == Start /\ files = {}

\* a later run: OUTPUT_PATH holds the files of the identifiers earlier runs
\* completed
InitResume ==
    /\ Start
    /\ \E done \in SUBSET Ids :
          files = {ImageFile(i) : i \in done} \cup {MetaFile(i) : i \in done}

Next ==
    \/ MainLoad
    \/ MainEnter
    \/ MainSearch
    \/ SearchReturn
    \/ MainNext
    \/ Rekognize
    \/ MainGather
    \/ MainGatherFail
    \/ MainExit
    \/ GetPagesRequest
    \/ GetPagesFail
    \/ GetPagesResponse
    \/ GetPagesSentinel
    \/ GetPagesGatherFail
    \/ GetItem

Spec == Init /\ [][Next]_vars

SpecResume == InitResume /\ [][Next]_vars

\* The event loop runs a task that is ready, and a request that was sent is
\* answered: the run does not stop while a step is possible.
FairSpec == Spec /\ WF_vars(Next)

(***************************************************************************)
(* Runs of main() that are interrupted and started again on the same       *)
(* OUTPUT_PATH.  The service puts no restriction on nasa_id: an identifier *)
(* may contain a ".".                                                      *)
(***************************************************************************)
DottedIds == {<<"A">>, <<"A", ".", "x">>}

\* the two identifiers, in either order, on the pages of one search
CrashChains ==
    UNION {{Paged(s, l) : l \in PageLens(Len(s))} :
              s \in {t \in SeqsUpTo(DottedIds, 2) : Len(t) = 2 /\ t[1] # t[2]}}

\* a new process: everything but the files and the service is as at Start
NewProcess ==
    /\ session' = 0
    /\ entered_count' = 0
    /\ opened' = 0
    /\ closeLog' = <<>>
    /\ level' = 0
    /\ pages' = <<>>
    /\ walkerPc' = "none"
    /\ next_page' = 0
    /\ first' = TRUE
    /\ permit' = FALSE
    /\ tasks' = <<>>
    /\ queue' = <<>>
    /\ puts' = <<>>
    /\ requests' = {}
    /\ total' = -1
    /\ mainPc' = "start"
    /\ img_ids' = {}
    /\ loaded' = {}
    /\ seen' = <<>>
    /\ rk_tasks' = <<>>
    /\ UNCHANGED <<chain, extraVars>>

\* the process is killed between two steps of the event loop, or has ended,
\* and main() is started again
Crash ==
    /\ mainPc # "start"
    /\ NewProcess
    /\ UNCHANGED files

\* the process is killed in rekognize between the write of the meta file and
\* the write of the image file, and main() is started again
CrashInWrite ==
    \E i \in DOMAIN rk_tasks :
        /\ rk_tasks[i].st = "pending"
        /\ files' = files \cup {MetaFile(rk_tasks[i].id)}
        /\ NewProcess

InitCrash == ProcessStart /\ chain \in CrashChains /\ files = {} /\ NoItem /\ NoSearches

NextCrash == Next \/ Crash \/ CrashInWrite

SpecCrash == InitCrash /\ [][NextCrash]_vars

(***************************************************************************)
(* _get_item from its detail document on: the image_urls mapping           *)
(***************************************************************************)
\* `for key in ["orig", "large", "medium", "small", "thumb"]`
Keys == <<"orig", "large", "medium", "small", "thumb">>

\* the names of the assets the service holds, as the words they are made of
AssetNames == {<<"A">>, <<"medium", "A">>, <<"B", "thumb">>}

\* A location is a text, here the sequence of its words.  The service names
\* the variant of tier t of the asset n "n~t.jpg"; the detail document lists
\* the variants the asset has, largest first, and then its metadata file.
Location(n, t) == n \o <<"~", t, ".", "jpg">>
MetadataLocation(n) == n \o <<"/", "metadata", ".", "json">>
Document(n, ts) ==
    LET present == SelectSeq(Keys, LAMBDA t : t \in ts)
    IN  [i \in 1..Len(present) |-> Location(n, present[i])] \o <<MetadataLocation(n)>>
Documents == {Document(n, ts) : n \in AssetNames, ts \in SUBSET Range(Keys)}

\* `key in u`: the text u contains the word key
Contains(u, key) == \E i \in DOMAIN u : u[i] = key

\* `next((u for u in data if key in u), None)`; <<>> is None
FirstWith(d, key) ==
    LET hits == {i \in DOMAIN d : Contains(d[i], key)}
    IN  IF hits = {} THEN <<>> ELSE d[CHOOSE i \in hits : \A j \in hits : i <= j]

\* the loop over the keys: a key is set when a location was found for it
ImageUrls(d) ==
    [key \in {k \in Range(Keys) : FirstWith(d, k) # <<>>} |-> FirstWith(d, key)]

\* `result["image_urls"] = {}`, the loop, `await queue.put(result)`
GetItemImageUrls ==
    /\ result.st = "none"
    /\ result' = [st |-> "put", image_urls |-> ImageUrls(data)]
    /\ UNCHANGED <<apiVars, searchVars, mainVars, data, queues, searches>>

InitUrls ==
    /\ ProcessStart
    /\ chain = <<<<>>>>
    /\ files = {}
    /\ NoSearches
    /\ data \in Documents
    /\ result = [st |-> "none", image_urls |-> <<>>]

NextUrls == GetItemImageUrls

SpecUrls == InitUrls /\ [][NextUrls]_vars

(***************************************************************************)
(* Searches run side by side on the one NASA_API, each by its own caller   *)
(* (`search = await NASA_API.search(...)`, then `async for item in         *)
(* search`).  A value on a queue carries the search whose task put it.     *)
(***************************************************************************)
Searches == {1, 2}

\* the pages the service can hold for one of the searches
TwoChains == {c \in Chains : TotalHits(c) <= 1}

\* the variables of the single search of main(), which does not run here
soloVars == <<chain, pages, walkerPc, next_page, first, permit, tasks, queue, puts,
              requests, total>>

\* a search not yet started
Idle == [pc |-> "idle", q |-> 0, chain |-> <<>>, walkerPc |-> "none", next_page |-> 0,
         first |-> TRUE, tasks |-> <<>>, total |-> -1, got |-> <<>>]

\* `queue = asyncio.Queue()` in search(): a new queue, local to the call
NewQueue_Shared(qs) == 1
NewQueue(qs) == Len(qs) + 1

\* queue.put(m) by a task of the search s
Put(q, m, s) == Append(q, [msg |-> m, src |-> s])

\* search(), up to `total = await queue.get()`
SearchStartOf(s) ==
    /\ searches[s].pc = "idle"
    /\ \E c \in TwoChains :
        LET k == NewQueue(queues) IN
        /\ queues' = IF k \in DOMAIN queues THEN queues ELSE Append(queues, <<>>)
        /\ searches' = [searches EXCEPT ![s] =
                           [Idle EXCEPT !.pc = "wait_total", !.q = k, !.chain = c,
                                        !.walkerPc = "acquire", !.next_page = 1]]
    /\ UNCHANGED <<apiVars, mainVars, soloVars, level, data, result>>

\* search(), from `total = await queue.get()` to the return of the iterator
SearchReturnOf(s) ==
    /\ searches[s].pc = "wait_total"
    /\ SearchReady(queues[searches[s].q])
    /\ LET r == Head(queues[searches[s].q]) IN
        searches' = [searches EXCEPT ![s].pc = "iter", ![s].total = r.msg.val,
                                     ![s].got = Append(@, r)]
    /\ queues' = [queues EXCEPT ![searches[s].q] = Tail(@)]
    /\ UNCHANGED <<apiVars, mainVars, soloVars, level, data, result>>

\* ResultIterator.__anext__ of the search's caller
AnextOf(s) ==
    /\ searches[s].pc = "iter"
    /\ queues[searches[s].q] # <<>>
    /\ LET r == Head(queues[searches[s].q]) IN
        searches' = [searches EXCEPT ![s].pc = IF r.msg.type = "none" THEN "end" ELSE "iter",
                                     ![s].got = Append(@, r)]
    /\ queues' = [queues EXCEPT ![searches[s].q] = Tail(@)]
    /\ UNCHANGED <<apiVars, mainVars, soloVars, level, data, result>>

\* _get_pages of the search s: the limiter grants and the page request goes out
GetPagesRequestOf(s) ==
    /\ searches[s].walkerPc = "acquire"
    /\ HasCapacity(level)
    /\ level' = level + 1
    /\ searches' = [searches EXCEPT ![s].walkerPc = "resp"]
    /\ UNCHANGED <<apiVars, mainVars, soloVars, queues, data, result>>

\* resp.raise_for_status() raises in _get_pages
GetPagesFailOf(s) ==
    /\ searches[s].walkerPc = "resp"
    /\ searches' = [searches EXCEPT ![s].walkerPc = "failed"]
    /\ UNCHANGED <<apiVars, mainVars, soloVars, level, queues, data, result>>

\* a 200 OK page of the search s
GetPagesResponseOf(s) ==
    /\ searches[s].walkerPc = "resp"
    /\ LET me == searches[s]
           items == me.chain[me.next_page]
           hasNext == me.next_page < Len(me.chain)
       IN
        /\ queues' = [queues EXCEPT ![me.q] =
                         IF me.first THEN Put(@, TotalMsg(TotalHits(me.chain)), s) ELSE @]
        /\ searches' = [searches EXCEPT ![s].next_page = IF hasNext THEN @ + 1 ELSE 0,
                                        ![s].first = FALSE,
                                        ![s].tasks = SpawnItems(@, items),
                                        ![s].walkerPc = IF hasNext THEN "acquire" ELSE "gather"]
    /\ UNCHANGED <<apiVars, mainVars, soloVars, level, data, result>>

\* `await asyncio.gather(*tasks)` returned in _get_pages of s: `await queue.put(None)`
GetPagesSentinelOf(s) ==
    /\ searches[s].walkerPc = "gather"
    /\ GatherReady(searches[s].tasks)
    /\ queues' = [queues EXCEPT ![searches[s].q] = Put(@, Sentinel, s)]
    /\ searches' = [searches EXCEPT ![s].walkerPc = "done"]
    /\ UNCHANGED <<apiVars, mainVars, soloVars, level, data, result>>

\* `await asyncio.gather(*tasks)` raised in _get_pages of s
GetPagesGatherFailOf(s) ==
    /\ searches[s].walkerPc = "gather"
    /\ GatherRaises(searches[s].tasks)
    /\ searches' = [searches EXCEPT ![s].walkerPc = "failed"]
    /\ UNCHANGED <<apiVars, mainVars, soloVars, level, queues, data, result>>

\* the i-th _get_item task of the search s, with the queue it was handed
GetItemOf(s, i) ==
    /\ \/ /\ searches[s].tasks[i].st = "spawned"
          /\ searches' = [searches EXCEPT ![s].tasks[i].st = "get"]
          /\ UNCHANGED queues
       \/ /\ searches[s].tasks[i].st = "get"
          /\ searches' = [searches EXCEPT ![s].tasks[i].st = "done"]
          /\ queues' = [queues EXCEPT ![searches[s].q] =
                           Put(@, RecordMsg(searches[s].tasks[i].id), s)]
       \/ /\ searches[s].tasks[i].st = "get"
          /\ searches' = [searches EXCEPT ![s].tasks[i].st = "failed"]
          /\ UNCHANGED queues
    /\ UNCHANGED <<apiVars, mainVars, soloVars, level, data, result>>

InitTwo ==
    /\ ProcessStart
    /\ chain = <<<<>>>>
    /\ files = {}
    /\ NoItem
    /\ queues = <<>>
    /\ searches = [s \in Searches |-> Idle]

NextTwo ==
    \E s \in Searches :
        \/ SearchStartOf(s)
        \/ SearchReturnOf(s)
        \/ AnextOf(s)
        \/ GetPagesRequestOf(s)
        \/ GetPagesFailOf(s)
        \/ GetPagesResponseOf(s)
        \/ GetPagesSentinelOf(s)
        \/ GetPagesGatherFailOf(s)
        \/ \E i \in DOMAIN searches[s].tasks : GetItemOf(s, i)

SpecTwo == InitTwo /\ [][NextTwo]_vars

(***************************************************************************)
(* Nested `async with NASA_API` scopes, properly nested: an exit only      *)
(* follows its enter.                                                      *)
(***************************************************************************)
ScopeEnter ==
    /\ entered_count < MaxDepth
    /\ opened < MaxOpens
    /\ aenter
    /\ UNCHANGED <<extraVars, searchVars, mainVars>>

ScopeExit ==
    /\ entered_count > 0
    /\ aexit
    /\ UNCHANGED <<extraVars, searchVars, mainVars>>

NextScope == ScopeEnter \/ ScopeExit

\* no search runs in the scopes: the service's pages play no part
InitScope == Init /\ chain = <<<<>>>>

SpecScope == InitScope /\ [][NextScope]_vars

(***************************************************************************)
(* Properties                                                              *)
(***************************************************************************)
\* the Sentinels among the values put so far
NumSentinels == Cardinality({k \in DOMAIN puts : puts[k] = Sentinel})

\* the consumer has received the Sentinel: its `async for` has ended
GotSentinel == mainPc \in {"gather", "exit", "exit_error", "done", "error"}

\* some page fetch or detail fetch has returned a non-success response
AnyFetchFailed == walkerPc = "failed" \/ GatherRaises(tasks)

\* nothing will be put on the queue any more: the _get_pages task and every
\* _get_item task have terminated
SearchOver ==
    /\ walkerPc \in {"done", "failed"}
    /\ \A i \in DOMAIN tasks : tasks[i].st \in {"done", "failed"}

\* C1: the first value put on the search's queue is the total_hits of the
\* first page, no later value is a total, and the total of the iterator
\* search() returns is that value, set before any Record is delivered.
C1_TotalFirst ==
    /\ puts # <<>> => puts[1] = TotalMsg(TotalHits(chain))
    /\ \A k \in 2..Len(puts) : puts[k].type # "total"
    /\ total # -1 => total = TotalHits(chain)
    /\ seen # <<>> => total # -1 /\ \A k \in DOMAIN seen : seen[k] \in Ids

\* C1: a Record of the second page of a two-page search has been delivered,
\* after the total was set
C1_Witness ==
    /\ Len(chain) = 2
    /\ Len(pages) = 2
    /\ Len(chain[2]) > 0
    /\ Len(seen) = Len(Flatten(chain))
    /\ total = TotalHits(chain)

\* C2 as stated: whenever a search has come to its end (the _get_pages task
\* and every _get_item task have terminated), exactly one Sentinel has been
\* enqueued.
C2_ExactlyOneSentinelInEveryRun == SearchOver => NumSentinels = 1

\* C2, amended: at most one Sentinel is ever enqueued; it is enqueued only
\* after the page loop has ended and every spawned _get_item task has
\* terminated, and it stays the last value put, so that no Record is
\* enqueued or delivered after it; a _get_pages task that returns has
\* enqueued exactly one, one that ends with an error has enqueued none.
C2_SentinelLast ==
    /\ NumSentinels <= 1
    /\ NumSentinels = 1 =>
          /\ puts[Len(puts)] = Sentinel
          /\ next_page = 0
          /\ pages = chain
          /\ Len(tasks) = Len(Flatten(chain))
          /\ \A i \in DOMAIN tasks : tasks[i].st \in {"done", "failed"}
    /\ walkerPc = "done" => NumSentinels = 1
    /\ walkerPc = "failed" => NumSentinels = 0
    /\ GotSentinel => queue = <<>> /\ NumSentinels = 1

\* C2: the consumer has received the Sentinel of a search of two pages whose
\* Records it received before
C2_Witness ==
    /\ mainPc = "gather"
    /\ walkerPc = "done"
    /\ Len(chain) = 2
    /\ Len(seen) >= 2
    /\ puts[Len(puts)] = Sentinel

\* C3: once the consumer has received the Sentinel of a search in which no
\* fetch failed, the Records delivered are, by identifier and with their
\* multiplicity, the entries of all the pages of the search; and at no time
\* has an identifier been delivered more often than it occurs in the pages
\* walked.
C3_RecordsAreEntries ==
    /\ \A id \in Ids : Count(seen, id) <= Count(Flatten(pages), id)
    /\ (GotSentinel /\ ~AnyFetchFailed) =>
          /\ pages = chain
          /\ Len(seen) = Len(Flatten(chain))
          /\ \A id \in Ids : Count(seen, id) = Count(Flatten(chain), id)

\* C3: three entries on two pages, one identifier twice, delivered in an
\* order other than the order of the pages
C3_Witness ==
    /\ GotSentinel
    /\ Len(chain) = 2
    /\ Len(seen) = 3
    /\ seen # Flatten(chain)
    /\ Cardinality(Range(seen)) = 2

\* C4: every request sent to the search service, page request or detail
\* request, was sent by a task holding a permit of self.rate_limiter.
C4_EveryRequestHoldsPermit == \A r \in requests : r.permit

\* C5: when a fetch has failed and the search is over, the caller is not left
\* waiting on the empty queue, neither in search() for the total nor in
\* __anext__ for the next value.
C5_FailureReleasesWaiter ==
    (AnyFetchFailed /\ SearchOver /\ queue = <<>>) => mainPc \notin {"wait_total", "iter"}

\* C6: in a run in which a page fetch or a detail fetch has failed no
\* Sentinel is enqueued, neither before the failure nor after it, so the
\* consumer's iteration does not end.
C6_NoSentinelWithFailure ==
    AnyFetchFailed => (NumSentinels = 0 /\ ~GotSentinel)

\* C6: a detail fetch has failed and _get_pages has ended with its error, a
\* sibling task has put its Record, the consumer has received it and waits
C6_Witness ==
    /\ walkerPc = "failed"
    /\ \E i, j \in DOMAIN tasks : tasks[i].st = "failed" /\ tasks[j].st = "done"
    /\ seen # <<>>
    /\ queue = <<>>
    /\ mainPc = "iter"

\* C7: session.close() is called in a step exactly when that step is the
\* __aexit__ that takes _entered_count from 1 to 0, and then once; no other
\* step, and no exit that leaves a scope open, closes.
C7_CloseOnceAtOutermost ==
    [][/\ Len(closeLog') \in {Len(closeLog), Len(closeLog) + 1}
       /\ (Len(closeLog') = Len(closeLog) + 1) <=> (entered_count = 1 /\ entered_count' = 0)]_vars

\* C7: three nested scopes have been entered and left, with one close()
C7_Witness ==
    /\ entered_count = 0
    /\ opened = 3
    /\ Len(closeLog) = 1

\* C8: once the outermost scope has exited, every ClientSession that was
\* opened has been closed.
C8_EveryPoolClosed ==
    entered_count = 0 => \A n \in 1..opened : n \in Range(closeLog)

\* C9: search() is ready to return from the moment the total of the first
\* page is on the queue, whatever the _get_pages task and the _get_item
\* tasks have still to do.
C9_SearchReturnsOnTotal ==
    (mainPc = "wait_total" /\ puts # <<>>) => ENABLED SearchReturn

\* C9: search() has returned while the second page is still to be fetched, a
\* _get_item task has not run yet and no Sentinel has been put
C9_Witness ==
    /\ mainPc = "iter"
    /\ total # -1
    /\ walkerPc = "acquire"
    /\ next_page = 2
    /\ \E i \in DOMAIN tasks : tasks[i].st = "spawned"
    /\ NumSentinels = 0

\* C10: the workers main() has spawned are those of the identifiers it has
\* received that are not in the img_ids loaded at start, one worker for each.
C10_SpawnsExactlyNew ==
    /\ {rk_tasks[i].id : i \in DOMAIN rk_tasks} = Range(seen) \ loaded
    /\ \A i, j \in DOMAIN rk_tasks : rk_tasks[i].id = rk_tasks[j].id => i = j
    /\ mainPc # "start" => loaded = LoadImgIds(files) \ {rk_tasks[i].id : i \in DOMAIN rk_tasks}

\* C10: with A processed by an earlier run and A, B, C streamed, the
\* iteration has ended with workers for B and C and no other
C10_Witness ==
    /\ GotSentinel
    /\ loaded = {<<"A">>}
    /\ chain = << <<<<"A">>, <<"B">>>>, <<<<"C">>>> >>
    /\ Range(seen) = Ids
    /\ {rk_tasks[i].id : i \in DOMAIN rk_tasks} = {<<"B">>, <<"C">>}
    /\ Len(rk_tasks) = 2

\* C11: when main() has completed normally the stream is exhausted (the
\* Sentinel was received, the search is over, the queue is empty) and every
\* rekognize task it spawned has terminated.
C11_ReturnsAfterWorkers ==
    mainPc \in {"exit", "done"} =>
        /\ NumSentinels = 1
        /\ SearchOver
        /\ queue = <<>>
        /\ \A i \in DOMAIN rk_tasks : rk_tasks[i].st = "done"

\* C11: main() has completed normally after three workers
C11_Witness ==
    /\ mainPc = "done"
    /\ Len(rk_tasks) = 3
    /\ Len(chain) = 2

\* the Records put so far that carry the identifier id
RecordsPut(id) == Cardinality({k \in DOMAIN puts : puts[k] = RecordMsg(id)})

\* C14: for every identifier, the Records put on the queue are as many as
\* the _get_item calls for it that got their detail document; a call that
\* has not got it yet, or whose fetch failed, has put nothing.
C14_OneRecordPerSuccess ==
    \A id \in Ids :
        RecordsPut(id) =
            Cardinality({i \in DOMAIN tasks : tasks[i].id = id /\ tasks[i].st = "done"})

\* C14: of two calls for the same identifier one has failed, the other has
\* put its Record
C14_Witness ==
    /\ \E i, j \in DOMAIN tasks :
          /\ tasks[i].id = tasks[j].id
          /\ tasks[i].st = "failed"
          /\ tasks[j].st = "done"
          /\ RecordsPut(tasks[i].id) = 1
    /\ Len(tasks) = 2

\* C15: the _get_item tasks of a page are created in the step that takes the
\* page in: whenever a page is to be requested or is being fetched, the tasks
\* of all the entries of the pages before it exist.
C15_SpawnedWithPage ==
    /\ Len(tasks) = Len(Flatten(pages))
    /\ \A i \in DOMAIN tasks : tasks[i].id = Flatten(pages)[i]
    /\ walkerPc \in {"acquire", "resp"} =>
          /\ Len(pages) = next_page - 1
          /\ pages = SubSeq(chain, 1, next_page - 1)

\* C15: a Record of the first page has been delivered to the consumer while
\* the request for the second page is in flight
C15_Witness ==
    /\ walkerPc = "resp"
    /\ next_page = 2
    /\ seen # <<>>
    /\ [kind |-> "page", n |-> 2, permit |-> TRUE] \in requests

\* C17: whenever session.close() has been called the consumer has received
\* the Sentinel and neither the _get_pages task nor a _get_item task is still
\* running; and every request is sent on a session that is open.
C17_CloseAfterSearch ==
    /\ [](closeLog # <<>> => (GotSentinel /\ NumSentinels = 1 /\ SearchOver))
    /\ [][requests' # requests => (session # 0 /\ session \notin Range(closeLog))]_vars

\* C17: main() has closed the session after a search of two pages and three
\* entries, all fetched
C17_Witness ==
    /\ closeLog = <<1>>
    /\ mainPc = "done"
    /\ Cardinality(requests) = 5
    /\ ~AnyFetchFailed

\* C16: under fair scheduling a search in which no fetch ever fails ends for
\* the consumer: it receives the Sentinel, after no more Records than the
\* pages have entries.  ("No fetch ever fails implies eventually the
\* Sentinel" is "eventually a failed fetch or the Sentinel".)
C16_StreamEnds ==
    /\ <>(AnyFetchFailed \/ GotSentinel)
    /\ [](Len(seen) <= Len(Flatten(chain)))

\* C16: the iteration has ended after the three Records of a two-page search
C16_Witness ==
    /\ GotSentinel
    /\ ~AnyFetchFailed
    /\ Len(chain) = 2
    /\ Len(seen) = 3

\* C18: resume is consistent under interruption: every identifier of the
\* ProcessedSet (the identifiers read from the image files) has its meta file
\* written, and an identifier whose image file was not written is not in
\* the ProcessedSet.
C18_ProcessedHaveMetadata ==
    /\ \A id \in LoadImgIds(files) : MetaFile(id) \in files
    /\ \A id \in DottedIds : ImageFile(id) \notin files => id \notin LoadImgIds(files)

\* the tier a location is the variant of: the word after "~", "" for a
\* location that is no variant
TierOf(u) ==
    IF \E i \in DOMAIN u : u[i] = "~"
    THEN u[(CHOOSE i \in DOMAIN u : u[i] = "~") + 1]
    ELSE ""

\* the tiers that have a variant in the document d
TiersIn(d) == {TierOf(d[i]) : i \in DOMAIN d} \ {""}

\* C13: the keys of the image_urls of the Record put are exactly the tiers
\* that have a variant in the detail document, each mapped to a location of
\* its tier.
C13_KeysAreTiersPresent ==
    result.st = "put" =>
        /\ DOMAIN result.image_urls = TiersIn(data)
        /\ \A k \in DOMAIN result.image_urls : TierOf(result.image_urls[k]) = k

\* C19: searches run side by side are isolated: each started search has a
\* queue of its own, every value on that queue was put by a task of that
\* search, and every value its caller received (its total, its Records, its
\* Sentinel) was put by a task of that search; the total is its own.
C19_SearchesIsolated ==
    \A s \in Searches : searches[s].pc # "idle" =>
        /\ \A t \in Searches \ {s} : searches[t].pc # "idle" => searches[t].q # searches[s].q
        /\ \A i \in DOMAIN queues[searches[s].q] : queues[searches[s].q][i].src = s
        /\ \A i \in DOMAIN searches[s].got : searches[s].got[i].src = s
        /\ searches[s].pc \in {"iter", "end"} =>
              searches[s].total = TotalHits(searches[s].chain)

\* C19: both callers are iterating, each has received its total and a value
\* waits on each of the two queues
C19_Witness ==
    \A s \in Searches :
        /\ searches[s].pc = "iter"
        /\ searches[s].got # <<>>
        /\ queues[searches[s].q] # <<>>

============================================================================
